---- MODULE Spec2Model ----
(***************************************************************************)
(* HealthLock: the share-grant store (table share_requests), the storage   *)
(* service that writes and reads it (StorageService.saveShareRequest,      *)
(* StorageService.getSharedRecords), the row-level policies that guard it, *)
(* and the share dialog that calls the service; the audit trail            *)
(* (AuditService over table audit_logs and its localStorage fallback);     *)
(* the patient dashboard's upload and share handlers over table            *)
(* 'medical-records' and table 'profiles'; and the creation of users       *)
(* (StorageService.createUser over table users, AuthForm.handleAuth).      *)
(*                                                                         *)
(* Time is one integer clock `now` read both by the client                 *)
(* (new Date().toISOString()) and by the database (NOW()); timestamps are  *)
(* compared as instants, which is what timestamptz comparison does.        *)
(***************************************************************************)
EXTENDS Integers, Sequences, FiniteSets, TLC

\* Bounds of the model.
MaxTime == 1
MaxRows == 2

Times == 0..MaxTime

\* users.role CHECK (role IN ('patient', 'doctor')); one patient, two doctors.
Patients == {"p1"}
Doctors == {"d1", "d2"}
Users == Patients \cup Doctors

\* The doctor the patient shares with; nothing is ever shared with d2.
Grantees == {"d1"}

\* patient_records rows the share requests reference (all owned by p1).
Records == {"r1"}

\* share_requests.status CHECK, ShareRequest.status
Statuses == {"pending", "approved", "denied"}

\* share_requests.access_level CHECK, ShareRequest.accessLevel
AccessLevels == {"view", "download"}

\* What a grantee does with a record it was handed.  getSharedRecords has no
\* such parameter: the row it returns carries encrypted_data, iv and
\* encrypted_key whatever the grantee goes on to do.
Ops == {"view", "download"}

\* Concurrent callers of the storage service (browser sessions of the patient).
Callers == {"c1", "c2"}

VARIABLES
    share_requests,   \* the table: a sequence of rows, row i has id i
    now,              \* the clock
    result,           \* what the last operation returned to its caller
    calls,            \* per caller: the saveShareRequest call in flight
    audit_logs,       \* table audit_logs: a sequence of rows, row i has id i
    local_logs,       \* localStorage["healthlock_audit_logs"], parsed
    audit_up,         \* whether requests on table audit_logs succeed
    medical_records,  \* table 'medical-records': a sequence of rows
    profiles,         \* table 'profiles': user id -> row (absent: exists FALSE)
    records,          \* PatientDashboard's state `records`, newest first
    users,            \* table users: a sequence of rows
    auth_users,       \* Supabase Auth: the emails that have an account
    patient_records,  \* table patient_records: a sequence of rows
    uploading,        \* PatientDashboard's state `uploading`
    uploadError       \* PatientDashboard's state `uploadError` ("null": none)

auditVars == <<audit_logs, local_logs, audit_up>>
recordVars == <<medical_records, profiles, records>>
accountVars == <<auth_users, patient_records>>
uploadVars == <<uploading, uploadError>>

vars == <<share_requests, now, result, calls, auditVars, recordVars, users,
         accountVars, uploadVars>>

NoResult == [op |-> "none"]

\* A caller with no call in flight.
NoRequest ==
    [recordId |-> "none", patientId |-> "none", doctorId |-> "none",
     expiresAt |-> 0, accessLevel |-> "none", status |-> "none"]

Idle == [pc |-> "idle", uid |-> "none", req |-> NoRequest, row |-> 0, overlap |-> {}]

Ids == 1..Len(share_requests)

\* A user id with no row in table 'profiles'.
NoProfile == [exists |-> FALSE, record_ids |-> <<>>, patients |-> <<>>]

\* A doctor who has signed up and has been shared nothing yet.
NewProfile == [exists |-> TRUE, record_ids |-> <<>>, patients |-> <<>>]

\* The tables are empty, except that the two doctors have signed up and have
\* their rows in 'profiles'; the browser's localStorage holds no audit log.
Init ==
    /\ share_requests = <<>>
    /\ now = 0
    /\ result = NoResult
    /\ calls = [c \in Callers |-> Idle]
    /\ audit_logs = <<>>
    /\ local_logs = <<>>
    /\ audit_up = TRUE
    /\ medical_records = <<>>
    /\ profiles = [u \in Users |-> IF u \in Doctors THEN NewProfile ELSE NoProfile]
    /\ records = <<>>
    /\ users = <<>>
    /\ auth_users = {}
    /\ patient_records = <<>>
    /\ uploading = FALSE
    /\ uploadError = "null"

\* The clock advances; nothing else changes.
Tick ==
    /\ now < MaxTime
    /\ now' = now + 1
    /\ result' = NoResult
    /\ UNCHANGED <<share_requests, calls, auditVars, recordVars, users,
                   accountVars, uploadVars>>

(***************************************************************************)
(* Table share_requests and its row-level policies                         *)
(***************************************************************************)

\* What a caller may pass as a share request (Omit<ShareRequest, "id" |
\* "createdAt">).
ShareRequestInputs ==
    [recordId : Records, patientId : Patients, doctorId : Grantees,
     expiresAt : Times, accessLevel : AccessLevels, status : Statuses]

\* The row an insert writes, with the id the table generates.  The columns no
\* operation below reads or compares (doctor_email, doctor_name, created_at,
\* updated_at) are left out; created_at is the time of the insert.
NewRow(req, id) ==
    [id |-> id,
     record_id |-> req.recordId,
     patient_id |-> req.patientId,
     doctor_id |-> req.doctorId,
     expires_at |-> req.expiresAt,
     access_level |-> req.accessLevel,
     status |-> req.status]

\* POLICY "Patients can create share requests": WITH CHECK (auth.uid() = patient_id)
PatientsCanCreateShareRequests(uid, row) == uid = row.patient_id

\* POLICY "Patients can update their share requests": USING (auth.uid() = patient_id)
PatientsCanUpdateShareRequests(uid, row) == uid = row.patient_id

\* POLICY "Doctors can update share request status": USING (auth.uid() = doctor_id)
DoctorsCanUpdateShareRequestStatus(uid, row) == uid = row.doctor_id

\* POLICY "Patients can view their share requests" / "Doctors can view their
\* share requests"
CanViewShareRequest(uid, row) == uid = row.patient_id \/ uid = row.doctor_id

\* POLICY "Doctors can view shared records" ON patient_records
DoctorsCanViewSharedRecords(uid, recordId, rows, at) ==
    \E i \in 1..Len(rows) :
        /\ rows[i].record_id = recordId
        /\ rows[i].doctor_id = uid
        /\ rows[i].status = "approved"
        /\ rows[i].expires_at > at

\* The table after INSERT of req: one more row.  The table has no UNIQUE
\* constraint over (record_id, doctor_id) and no CHECK on expires_at.
InsertShareRequest(rows, req) == Append(rows, NewRow(req, Len(rows) + 1))

\* UpdateStatus with a revoke that only takes effect on an approved grant.
UpdateStatusRevokeFromApprovedOnly(row, st) ==
    IF st = "denied" /\ row.status # "approved" THEN row
    ELSE [row EXCEPT !.status = st]

\* UPDATE share_requests SET status = st WHERE id = row.id: the columns not
\* named keep their values (the script defines no trigger, so updated_at
\* keeps its value as well).
UpdateStatus(row, st) == [row EXCEPT !.status = st]

(***************************************************************************)
(* StorageService                                                          *)
(***************************************************************************)

\* Whether the insert of saveShareRequest returns a row.  ok = FALSE is the
\* backend returning an error; an insert the INSERT policy refuses returns an
\* error as well.  On an error the method catches, logs and returns null.
InsertAccepted(uid, req, ok) ==
    ok /\ PatientsCanCreateShareRequests(uid, NewRow(req, 0))

\* What saveShareRequest returns: the inserted row (here its id and the
\* status it was asked to store), or null.
SaveResult(req, row) ==
    IF row = 0 THEN [op |-> "saveShareRequest", row |-> 0]
    ELSE [op |-> "saveShareRequest", row |-> row, requested |-> req.status]

\* StorageService.saveShareRequest, as one step: the insert and its result.
SaveShareRequest(uid, req, ok) ==
    LET accepted == InsertAccepted(uid, req, ok)
    IN  /\ accepted => Len(share_requests) < MaxRows
        /\ share_requests' =
               IF accepted THEN InsertShareRequest(share_requests, req)
               ELSE share_requests
        /\ result' = SaveResult(req, IF accepted THEN Len(share_requests) + 1 ELSE 0)
        /\ UNCHANGED <<now, calls, auditVars, recordVars, users,
                   accountVars, uploadVars>>

\* The filter of getSharedRecords on one row:
\* .eq("doctor_id", doctorId).eq("status", "approved").gt("expires_at", now)
SharedRecordsFilter(row, doctorId, at) ==
    /\ row.doctor_id = doctorId
    /\ row.status = "approved"
    /\ row.expires_at > at

\* StorageService.getSharedRecords(doctorId) called in the doctor's session:
\* the share rows that pass the filter, each with its patient record.
getSharedRecords(doctorId, rows, at) ==
    { [share |-> i, record |-> rows[i].record_id] :
        i \in { j \in 1..Len(rows) :
                  /\ CanViewShareRequest(doctorId, rows[j])
                  /\ SharedRecordsFilter(rows[j], doctorId, at)
                  /\ DoctorsCanViewSharedRecords(doctorId, rows[j].record_id, rows, at) } }

\* What a grantee is told about one share row by getSharedRecords: the row's
\* record is in the returned list, or it is not.  The list carries nothing
\* about the rows it leaves out.
AccessDecision(row, doctorId, rows, at) ==
    IF \E r \in getSharedRecords(doctorId, rows, at) : r.share = row.id
    THEN [decision |-> "Allowed", record |-> row.record_id]
    ELSE [decision |-> "Denied"]

\* DoctorDashboard.loadSharedRecords: the doctor's list of shared records.
\* requestedOp is what the doctor goes on to do with a record of the list.
\* ok = FALSE is the query failing (an error, or a null embedded resource
\* that makes the mapping throw): the method catches and returns [].
LoadSharedRecords(doctorId, requestedOp, ok) ==
    /\ result' = IF ok
                 THEN [op |-> "getSharedRecords", ok |-> TRUE,
                       doctorId |-> doctorId, requestedOp |-> requestedOp,
                       records |-> getSharedRecords(doctorId, share_requests, now)]
                 ELSE [op |-> "getSharedRecords", ok |-> FALSE, records |-> {}]
    /\ UNCHANGED <<share_requests, now, calls, auditVars, recordVars, users,
                   accountVars, uploadVars>>

\* A status update of one row by session uid: the UPDATE policies let the
\* row's patient and the row's doctor write it, whatever its current status;
\* for anyone else the UPDATE matches no row and changes nothing.
UpdateShareRequest(uid, id, st) ==
    LET row == share_requests[id]
        permitted == \/ PatientsCanUpdateShareRequests(uid, row)
                     \/ DoctorsCanUpdateShareRequestStatus(uid, row)
    IN  /\ share_requests' =
               IF permitted
               THEN [share_requests EXCEPT ![id] = UpdateStatus(row, st)]
               ELSE share_requests
        /\ result' = IF permitted
                     THEN [op |-> "update", updated |-> TRUE, id |-> id,
                           prev |-> row.status, status |-> st]
                     ELSE [op |-> "update", updated |-> FALSE]
        /\ UNCHANGED <<now, calls, auditVars, recordVars, users,
                   accountVars, uploadVars>>

(***************************************************************************)
(* ShareRecordDialog                                                       *)
(***************************************************************************)

\* StorageService.getDemoUsers: "no longer needed with Supabase", returns [].
getDemoUsers == {}

\* ShareRecordDialog.handleShare for the dialog's record, in the patient's
\* session.  doctorEmail = "" and expiryDate = -1 are the fields left empty.
\* The doctor is looked up among getDemoUsers().  Past the lookup the handler
\* starts saveShareRequest with status "approved" without awaiting it, and
\* then calls StorageService.updatePatientRecord, which StorageService does
\* not define: the call throws and the handler alerts the failure.
HandleShare(user, record, doctorEmail, expiryDate, accessLevel) ==
    LET found == { u \in getDemoUsers : u.email = doctorEmail /\ u.role = "doctor" }
        doctor == CHOOSE u \in found : TRUE
        shareRequest == [recordId |-> record, patientId |-> user,
                         doctorId |-> doctor.id, expiresAt |-> expiryDate,
                         accessLevel |-> accessLevel, status |-> "approved"]
    IN  /\ share_requests' =
               IF doctorEmail # "" /\ expiryDate # -1 /\ found # {}
                  /\ Len(share_requests) < MaxRows
               THEN InsertShareRequest(share_requests, shareRequest)
               ELSE share_requests
        /\ result' = [op |-> "handleShare",
                      alert |-> IF doctorEmail = "" \/ expiryDate = -1
                                THEN "Please fill in all fields"
                                ELSE IF found = {}
                                THEN "Doctor not found. Try doctor@demo.com"
                                ELSE "Failed to share record"]
        /\ UNCHANGED <<now, calls, auditVars, recordVars, users,
                   accountVars, uploadVars>>

Next ==
    \/ Tick
    \/ \E req \in ShareRequestInputs :
           \E uid \in {req.patientId, "d2"} : SaveShareRequest(uid, req, TRUE)
    \/ \E req \in ShareRequestInputs : SaveShareRequest(req.patientId, req, FALSE)
    \/ \E d \in Doctors, o \in Ops, ok \in BOOLEAN : LoadSharedRecords(d, o, ok)
    \/ \E uid \in Users, id \in Ids, st \in Statuses : UpdateShareRequest(uid, id, st)
    \/ \E u \in Patients, r \in Records, e \in {"", "doctor@demo.com"},
          x \in Times \cup {-1}, a \in AccessLevels : HandleShare(u, r, e, x, a)

Spec == Init /\ [][Next]_vars

(***************************************************************************)
(* Concurrent calls of saveShareRequest                                    *)
(*                                                                         *)
(* saveShareRequest awaits one statement, the insert; two calls in flight  *)
(* reach the database in either order.  calls[c].overlap is the set of     *)
(* callers whose call was in flight at some moment of c's call.            *)
(***************************************************************************)

InFlight == { c \in Callers : calls[c].pc = "awaiting" }

\* saveShareRequest is called and suspends at the await of the insert.
SaveShareRequestCall(c, uid, req) ==
    /\ calls[c].pc # "awaiting"
    /\ calls' = [d \in Callers |->
                   IF d = c
                   THEN [pc |-> "awaiting", uid |-> uid, req |-> req, row |-> 0,
                         overlap |-> InFlight]
                   ELSE IF d \in InFlight
                   THEN [calls[d] EXCEPT !.overlap = @ \cup {c}]
                   ELSE calls[d]]
    /\ result' = NoResult
    /\ UNCHANGED <<share_requests, now, auditVars, recordVars, users,
                   accountVars, uploadVars>>

\* The database executes the insert of c's call and the method returns the
\* row, or null on an error.
SaveShareRequestReturn(c, ok) ==
    LET call == calls[c]
        accepted == InsertAccepted(call.uid, call.req, ok)
        row == IF accepted THEN Len(share_requests) + 1 ELSE 0
    IN  /\ call.pc = "awaiting"
        /\ accepted => Len(share_requests) < MaxRows
        /\ share_requests' =
               IF accepted THEN InsertShareRequest(share_requests, call.req)
               ELSE share_requests
        /\ calls' = [calls EXCEPT ![c] =
                        [pc |-> "returned", uid |-> call.uid, req |-> NoRequest,
                         row |-> row, overlap |-> call.overlap]]
        /\ result' = SaveResult(call.req, row)
        /\ UNCHANGED <<now, auditVars, recordVars, users, accountVars, uploadVars>>

NextShare ==
    \/ \E c \in Callers, req \in ShareRequestInputs :
           SaveShareRequestCall(c, req.patientId, req)
    \/ \E c \in Callers, ok \in BOOLEAN : SaveShareRequestReturn(c, ok)

SpecShare == Init /\ [][NextShare]_vars

(***************************************************************************)
(* AuditService                                                            *)
(*                                                                         *)
(* An audit event is what a caller passes to logEvent.  The fields the     *)
(* service copies without reading (userName, userRole, resourceName,       *)
(* ip_address, user_agent) are left out.  A details value is a text        *)
(* together with the form it is held in.                                   *)
(***************************************************************************)

\* AuditLog.action
AuditActions == {"upload", "share", "access", "download", "login", "logout"}

\* The users whose events are explored, and the kinds of their events.
AuditUsers == {"p1", "d1"}
LoggedActions == {"upload", "login"}

\* AuditLog.resourceType / resourceId of an event of kind a, as the callers
\* build them: login and logout are system events with no resourceId.
ResourceTypeOf(a) == IF a \in {"login", "logout"} THEN "system" ELSE "record"
ResourceIdOf(a) == IF a \in {"login", "logout"} THEN "none" ELSE "r1"

AuditEvent(u, a) ==
    [userId |-> u, action |-> a, resourceType |-> ResourceTypeOf(a),
     resourceId |-> ResourceIdOf(a), details |-> [form |-> "plaintext", text |-> a]]

AuditEvents == { AuditEvent(u, a) : u \in AuditUsers, a \in LoggedActions }

\* AuditService.encryptAuditDetails: AES-GCM under a key and an IV generated
\* for this call and dropped; ok = FALSE is WebCrypto throwing, which the
\* method catches to return the details as they came.
encryptAuditDetails(details, ok) ==
    IF ok THEN [form |-> "ciphertext", text |-> details.text] ELSE details

\* The row logEvent inserts; created_at DEFAULT NOW().
AuditRow(event, id, encryptedDetails, at) ==
    [id |-> id,
     user_id |-> event.userId,
     action |-> event.action,
     resource_type |-> event.resourceType,
     resource_id |-> event.resourceId,
     encrypted_details |-> encryptedDetails,
     created_at |-> at]

\* POLICY "Users can insert their own audit logs": WITH CHECK (auth.uid() = user_id)
UsersCanInsertTheirOwnAuditLogs(uid, row) == uid = row.user_id

\* POLICY "Users can view their own audit logs": USING (auth.uid() = user_id)
UsersCanViewTheirOwnAuditLogs(uid, row) == uid = row.user_id

\* allLogs.length > 1000
LocalLogLimit == 1000

\* The id of the newest entry of the local log.  logEventLocally builds ids
\* from Date.now() and Math.random(); here they are consecutive numbers.
LastLocalId(logs) == IF Len(logs) = 0 THEN 0 ELSE logs[Len(logs)].id

\* The AuditLog that logEventLocally builds: the event as passed ({...event},
\* so with its details as passed), an id and the time.
LocalEntry(event, id, at) ==
    [id |-> id,
     userId |-> event.userId,
     action |-> event.action,
     resourceType |-> event.resourceType,
     resourceId |-> event.resourceId,
     details |-> event.details,
     timestamp |-> at]

\* AuditService.logEventLocally, the stored log after a successful write:
\* push, then splice(0, length - 1000) if the log is longer than 1000.
logEventLocally(logs, event, at) ==
    LET allLogs == Append(logs, LocalEntry(event, LastLocalId(logs) + 1, at))
    IN  IF Len(allLogs) > LocalLogLimit
        THEN SubSeq(allLogs, Len(allLogs) - LocalLogLimit + 1, Len(allLogs))
        ELSE allLogs

\* Bound on the number of entries written in a run.
MaxEvents == 2

\* AuditService.logEvent(event), called in the session of event.userId.
\*   encOk   whether encryptAuditDetails could encrypt;
\*   thrown  when the insert does not succeed: whether the client throws
\*           (catch block) or returns { error } (if (error) block);
\*   w1, w2  whether the first and the second call of logEventLocally can
\*           read and write localStorage (getItem, JSON.parse and setItem do
\*           not throw).
\* After { error } logEventLocally runs inside the try block: if it throws,
\* the catch block calls it a second time, and what that call throws leaves
\* logEvent.  After a thrown insert only the catch block's call runs.
LogEvent(event, encOk, thrown, w1, w2) ==
    LET encryptedDetails == encryptAuditDetails(event.details, encOk)
        row == AuditRow(event, Len(audit_logs) + 1, encryptedDetails, now)
        inserted == audit_up /\ UsersCanInsertTheirOwnAuditLogs(event.userId, row)
        written == ~inserted /\ (w1 \/ (~thrown /\ w2))
    IN  /\ Len(audit_logs) + LastLocalId(local_logs) < MaxEvents
        /\ audit_logs' = IF inserted THEN Append(audit_logs, row) ELSE audit_logs
        /\ local_logs' = IF written THEN logEventLocally(local_logs, event, now)
                         ELSE local_logs
        /\ result' = [op |-> "logEvent",
                      outcome |-> IF inserted \/ written THEN "returned" ELSE "threw",
                      stored |-> IF inserted THEN "audit_logs"
                                 ELSE IF written THEN "localStorage" ELSE "nowhere"]
        /\ UNCHANGED <<share_requests, now, calls, audit_up, recordVars, users,
                   accountVars, uploadVars>>

\* Requests on table audit_logs start to fail (the backend is unreachable or
\* answers with an error), and succeed again.
StoreFails ==
    /\ audit_up
    /\ audit_up' = FALSE
    /\ result' = NoResult
    /\ UNCHANGED <<share_requests, now, calls, audit_logs, local_logs, recordVars, users,
                   accountVars, uploadVars>>

StoreRecovers ==
    /\ ~audit_up
    /\ audit_up' = TRUE
    /\ result' = NoResult
    /\ UNCHANGED <<share_requests, now, calls, audit_logs, local_logs, recordVars, users,
                   accountVars, uploadVars>>

\* The filters of getAuditLogs; "none" and -1 are a field left undefined.
NoFilters == [userId |-> "none", resourceId |-> "none", action |-> "none", limit |-> -1]

AuditFilters ==
    [userId : {"none", "p1"}, resourceId : {"none", "r1"},
     action : {"none", "login"}, limit : {-1, 0, 1}]

\* if (filters?.userId) ...: a filter is applied when its value is truthy.
Truthy(v) == v # "none" /\ v # ""

\* if (filters?.limit): a limit is applied when it is a number other than 0.
LimitApplies(limit) == limit # -1 /\ limit # 0

\* The first `limit` elements of logs, when the limit applies.
Limited(logs, limit) ==
    IF LimitApplies(limit) /\ limit < Len(logs) THEN SubSeq(logs, 1, limit) ELSE logs

\* The rows of audit_logs the remote query selects in session uid: the rows
\* the SELECT policy shows that pass every .eq() added.
RemoteMatches(rows, uid, filters) ==
    { i \in 1..Len(rows) :
        /\ UsersCanViewTheirOwnAuditLogs(uid, rows[i])
        /\ Truthy(filters.userId) => rows[i].user_id = filters.userId
        /\ Truthy(filters.resourceId) => rows[i].resource_id = filters.resourceId
        /\ Truthy(filters.action) => rows[i].action = filters.action }

\* .order("created_at", { ascending: false }): the orders the database may
\* return a set of rows in; rows of equal created_at come in any order.
NewestFirstOrders(rows, matches) ==
    { o \in [1..Cardinality(matches) -> matches] :
        /\ \A i, j \in DOMAIN o : i # j => o[i] # o[j]
        /\ \A i, j \in DOMAIN o : i < j => rows[o[i]].created_at >= rows[o[j]].created_at }

\* data.map(...): the AuditLog built from a row; details is the stored
\* encrypted_details.
MapRow(row) ==
    [id |-> row.id,
     userId |-> row.user_id,
     action |-> row.action,
     resourceType |-> row.resource_type,
     resourceId |-> row.resource_id,
     details |-> row.encrypted_details,
     timestamp |-> row.created_at]

\* What the remote path of getAuditLogs may return.
getAuditLogsRemote(rows, uid, filters) ==
    { Limited([i \in DOMAIN o |-> MapRow(rows[o[i]])], filters.limit) :
        o \in NewestFirstOrders(rows, RemoteMatches(rows, uid, filters)) }

\* allLogs.filter(...) for each truthy filter.
LocalFilter(logs, filters) ==
    LET Keep(log) ==
            /\ Truthy(filters.userId) => log.userId = filters.userId
            /\ Truthy(filters.resourceId) => log.resourceId = filters.resourceId
            /\ Truthy(filters.action) => log.action = filters.action
    IN  SelectSeq(logs, Keep)

\* sorted with e put in by Array.prototype.sort's comparator b - a on the
\* timestamps: after every element at least as new (the sort is stable).
RECURSIVE InsertNewestFirst(_, _)
InsertNewestFirst(sorted, e) ==
    IF sorted = <<>> THEN <<e>>
    ELSE IF Head(sorted).timestamp >= e.timestamp
         THEN <<Head(sorted)>> \o InsertNewestFirst(Tail(sorted), e)
         ELSE <<e>> \o sorted

RECURSIVE SortNewestFirst(_)
SortNewestFirst(logs) ==
    IF logs = <<>> THEN <<>>
    ELSE InsertNewestFirst(SortNewestFirst(SubSeq(logs, 1, Len(logs) - 1)),
                           logs[Len(logs)])

\* AuditService.getAuditLogsLocally: filter, sort, slice.
getAuditLogsLocally(logs, filters) ==
    Limited(SortNewestFirst(LocalFilter(logs, filters)), filters.limit)

\* AuditService.getAuditLogs(filters) in session uid.  The remote query
\* succeeds while audit_logs is reachable; otherwise the method answers from
\* localStorage, and readOk = FALSE is that read throwing (getItem or
\* JSON.parse), which leaves getAuditLogs.
GetAuditLogs(uid, filters, readOk) ==
    /\ \/ /\ audit_up
          /\ \E logs \in getAuditLogsRemote(audit_logs, uid, filters) :
                 result' = [op |-> "getAuditLogs", outcome |-> "returned",
                            path |-> "remote", uid |-> uid, filters |-> filters,
                            logs |-> logs]
       \/ /\ ~audit_up
          /\ result' = IF readOk
                       THEN [op |-> "getAuditLogs", outcome |-> "returned",
                             path |-> "local", uid |-> uid, filters |-> filters,
                             logs |-> getAuditLogsLocally(local_logs, filters)]
                       ELSE [op |-> "getAuditLogs", outcome |-> "threw"]
    /\ UNCHANGED <<share_requests, now, calls, auditVars, recordVars, users,
                   accountVars, uploadVars>>

\* 30 * 24 * 60 * 60 * 1000 ms: the clock counts periods of thirty days.
SummaryWindow == 1

\* The object getActivitySummary builds from the logs getAuditLogs returned.
ActivitySummaryOf(logs, at) ==
    LET last30Days == at - SummaryWindow
        Recent(log) == log.timestamp > last30Days
        recentLogs == SelectSeq(logs, Recent)
        IsUpload(log) == log.action = "upload"
        IsShare(log) == log.action = "share"
        IsAccess(log) == log.action = "access"
    IN  [totalActions |-> Len(logs),
         recentUploads |-> Len(SelectSeq(recentLogs, IsUpload)),
         recentShares |-> Len(SelectSeq(recentLogs, IsShare)),
         recentAccess |-> Len(SelectSeq(recentLogs, IsAccess))]

\* AuditService.getActivitySummary(userId) in session uid:
\* getAuditLogs({ userId }) and the counts over what it returned.
GetActivitySummary(uid, userId, readOk) ==
    LET filters == [NoFilters EXCEPT !.userId = userId]
    IN  /\ \/ /\ audit_up
              /\ \E logs \in getAuditLogsRemote(audit_logs, uid, filters) :
                     result' = [op |-> "getActivitySummary", outcome |-> "returned",
                                path |-> "remote", uid |-> uid, userId |-> userId,
                                summary |-> ActivitySummaryOf(logs, now)]
           \/ /\ ~audit_up
              /\ result' =
                     IF readOk
                     THEN [op |-> "getActivitySummary", outcome |-> "returned",
                           path |-> "local", uid |-> uid, userId |-> userId,
                           summary |-> ActivitySummaryOf(
                                           getAuditLogsLocally(local_logs, filters), now)]
                     ELSE [op |-> "getActivitySummary", outcome |-> "threw"]
        /\ UNCHANGED <<share_requests, now, calls, auditVars, recordVars, users,
                   accountVars, uploadVars>>

\* The steps that write the audit trail.
NextAppend ==
    \/ Tick
    \/ StoreFails
    \/ StoreRecovers
    \/ \E e \in AuditEvents, encOk, thrown, w1, w2 \in BOOLEAN :
           LogEvent(e, encOk, thrown, w1, w2)

NextAudit ==
    \/ NextAppend
    \/ \E uid \in AuditUsers, f \in AuditFilters, readOk \in BOOLEAN :
           GetAuditLogs(uid, f, readOk)
    \/ \E uid \in AuditUsers, readOk \in BOOLEAN : GetActivitySummary(uid, uid, readOk)

SpecAudit == Init /\ [][NextAudit]_vars

\* The browser's local log holds LocalLogLimit entries of earlier sessions
\* (ids up to 0), written while audit_logs could not be reached.
FullLocalLog ==
    [i \in 1..LocalLogLimit |->
        LocalEntry(AuditEvent("p1", "login"), i - LocalLogLimit, 0)]

InitFullLocalLog ==
    /\ share_requests = <<>>
    /\ now = 0
    /\ result = NoResult
    /\ calls = [c \in Callers |-> Idle]
    /\ audit_logs = <<>>
    /\ local_logs = FullLocalLog
    /\ audit_up = FALSE
    /\ medical_records = <<>>
    /\ profiles = [u \in Users |-> IF u \in Doctors THEN NewProfile ELSE NoProfile]
    /\ records = <<>>
    /\ users = <<>>
    /\ auth_users = {}
    /\ patient_records = <<>>
    /\ uploading = FALSE
    /\ uploadError = "null"

SpecAuditFull == InitFullLocalLog /\ [][NextAppend]_vars

\* The backend that has failed recovers, and the application goes on
\* handling events; the service schedules nothing of its own.
SpecAuditFair ==
    Init /\ [][NextAppend]_vars /\ WF_vars(StoreRecovers) /\ WF_vars(NextAppend)

(***************************************************************************)
(* PatientDashboard                                                        *)
(*                                                                         *)
(* The dashboard keeps the patient's records in its state `records` and    *)
(* writes table 'medical-records' and table 'profiles' through its own     *)
(* client.  Each handler is one step: its requests and its state updates.  *)
(***************************************************************************)

\* Bound on the rows of 'medical-records'.
MaxRecords == 2

\* file.size > 10 * 1024 * 1024
MaxUploadBytes == 10485760

\* An empty FileList (or null).
NoFile == [name |-> "", type |-> "", size |-> 0]

\* The files the patient may pick: two images, a document, an oversized image.
UploadFiles ==
    { [name |-> "xray.png", type |-> "image/png", size |-> 1024],
      [name |-> "photo.png", type |-> "image/png", size |-> 1024],
      [name |-> "report.pdf", type |-> "application/pdf", size |-> 1024],
      [name |-> "photo.png", type |-> "image/png", size |-> MaxUploadBytes + 1] }

\* file.type.startsWith('image/')
IsImageType(type) == type \in {"image/png", "image/jpeg"}

\* The words of the record-type rules that a file name contains
\* (file.name.toLowerCase().includes(word)).
NameIncludes(name, word) ==
    \/ name = "xray.png" /\ word = "xray"

\* The record type handleFileUpload derives from the file name.
RecordTypeOf(name) ==
    IF NameIncludes(name, "xray") \/ NameIncludes(name, "x-ray") THEN "xray"
    ELSE IF NameIncludes(name, "blood") \/ NameIncludes(name, "test") THEN "lab_result"
    ELSE IF NameIncludes(name, "scan") \/ NameIncludes(name, "mri")
            \/ NameIncludes(name, "ct") THEN "scan"
    ELSE "medical_image"

\* URL.createObjectURL(file): a blob: URL through which this browser reads
\* the file's content as it was picked.
CreateObjectURL(file) == [scheme |-> "blob", file |-> file.name]

\* The row handleFileUpload inserts, with the id the table generates.
\* thumbnail_url (the same URL as file_url) and file_size are left out.
MedicalRecordRow(id, patientId, file, recordType, at) ==
    [id |-> id,
     patient_id |-> patientId,
     file_name |-> file.name,
     file_url |-> CreateObjectURL(file),
     file_type |-> file.type,
     uploaded_at |-> at,
     shared_with |-> <<>>,
     record_type |-> recordType]

\* PatientDashboard.handleFileUpload(files) of patient `user`.  firstOk and
\* retryOk are whether the first insert and the retry with record_type
\* 'medical_image' succeed.  The handler encrypts nothing and calls no
\* AuditService method.  It sets `uploading` when the file has passed the
\* checks and resets it in its finally block.
HandleFileUpload(user, file, firstOk, retryOk) ==
    LET valid == file # NoFile /\ IsImageType(file.type) /\ file.size <= MaxUploadBytes
        saved == valid /\ (firstOk \/ retryOk)
        recordType == IF firstOk THEN RecordTypeOf(file.name) ELSE "medical_image"
        row == MedicalRecordRow(Len(medical_records) + 1, user, file, recordType, now)
    IN  /\ saved => Len(medical_records) < MaxRecords
        /\ medical_records' = IF saved THEN Append(medical_records, row)
                              ELSE medical_records
        /\ records' = IF saved THEN <<row>> \o records ELSE records
        /\ result' =
               [op |-> "handleFileUpload",
                uploaded |-> saved,
                row |-> IF saved THEN row.id ELSE 0,
                inserts |-> IF ~valid THEN 0 ELSE IF firstOk THEN 1 ELSE 2,
                uploadError |->
                    IF file = NoFile \/ saved THEN "null"
                    ELSE IF ~IsImageType(file.type)
                    THEN "Please upload an image file (JPG, PNG, etc.)"
                    ELSE IF file.size > MaxUploadBytes
                    THEN "File size must be less than 10MB"
                    ELSE "Database error"]
        /\ uploading' = IF valid THEN FALSE ELSE uploading
        /\ uploadError' = IF file = NoFile THEN uploadError ELSE result'.uploadError
        /\ UNCHANGED <<share_requests, now, calls, auditVars, profiles, users,
                       accountVars>>

\* DoctorProfile.name of the doctors the dashboard lists.
DoctorName(d) == IF d = "d1" THEN "Dr. Smith" ELSE "Dr. Johnson"

\* The elements of a sequence.
Range(seq) == { seq[i] : i \in 1..Len(seq) }

\* [...new Set([...currentPatients, id])]
AddUnique(seq, x) == IF x \in Range(seq) THEN seq ELSE Append(seq, x)

\* PatientDashboard.handleShare(record, doctorId) of patient `user`, for the
\* k-th record of the dashboard's list; the menu item is disabled when
\* record.shared_with includes the doctor's name.  recordOk, profileOk and
\* updateOk are whether the update of the record, the read of the doctor's
\* profile and the update of the profile succeed; on the first that fails the
\* handler logs and returns.  The handler calls no AuditService method.
PatientDashboardHandleShare(user, k, doctorId, recordOk, profileOk, updateOk) ==
    LET record == records[k]
        sharedWith == Append(record.shared_with, DoctorName(doctorId))
        doctorProfile == profiles[doctorId]
        read == recordOk /\ profileOk /\ doctorProfile.exists
        shared == read /\ updateOk
    IN  /\ k \in 1..Len(records)
        /\ DoctorName(doctorId) \notin Range(record.shared_with)
        /\ medical_records' =
               IF recordOk
               THEN [i \in 1..Len(medical_records) |->
                        IF medical_records[i].id = record.id
                        THEN [medical_records[i] EXCEPT !.shared_with = sharedWith]
                        ELSE medical_records[i]]
               ELSE medical_records
        /\ profiles' =
               IF shared
               THEN [profiles EXCEPT ![doctorId] =
                        [exists |-> TRUE,
                         record_ids |-> Append(doctorProfile.record_ids, record.id),
                         patients |-> AddUnique(doctorProfile.patients, user)]]
               ELSE profiles
        /\ records' =
               IF shared
               THEN [i \in 1..Len(records) |->
                        IF records[i].id = record.id
                        THEN [records[i] EXCEPT
                                 !.shared_with = Append(@, DoctorName(doctorId))]
                        ELSE records[i]]
               ELSE records
        /\ result' = [op |-> "PatientDashboard.handleShare", shared |-> shared,
                      record |-> record.id, doctorId |-> doctorId]
        /\ UNCHANGED <<share_requests, now, calls, auditVars, users,
                   accountVars, uploadVars>>

NextDashboard ==
    \/ Tick
    \/ \E f \in UploadFiles \cup {NoFile}, firstOk, retryOk \in BOOLEAN :
           HandleFileUpload("p1", f, firstOk, retryOk)
    \/ \E k \in 1..Len(records), d \in Doctors, recordOk, profileOk, updateOk \in BOOLEAN :
           PatientDashboardHandleShare("p1", k, d, recordOk, profileOk, updateOk)
    \/ \E u \in Patients, r \in Records, e \in {"", "doctor@demo.com"},
          x \in Times \cup {-1}, a \in AccessLevels : HandleShare(u, r, e, x, a)

SpecDashboard == Init /\ [][NextDashboard]_vars

(***************************************************************************)
(* Creating users: StorageService.createUser and AuthForm.handleAuth       *)
(*                                                                         *)
(* A key pair is named by its id; a ciphertext is modelled by the key, the *)
(* IV and the data it was made from, which is what decides whether a       *)
(* decryption succeeds; none of the three can be read off a ciphertext.    *)
(***************************************************************************)

\* if (password.length < 6)
MinPasswordLength == 6

Emails == {"patient@demo.com", "doctor@demo.com"}
Passwords == {"abc", "abcdef"}
Roles == {"patient", "doctor"}
KeyPairs == {"k1", "k2"}
IVs == {"iv1", "iv2"}

\* What supabase.auth.signUp answers: a user, an error, or neither.
SignUpOutcomes == {"user", "error", "none"}

\* authData.user.id: the id Supabase Auth gives the account of an email.
AuthUserId(email) == IF email = "patient@demo.com" THEN "p1" ELSE "d1"

\* EncryptionService.exportPublicKey(keyPair.publicKey)
exportPublicKey(keyPair) == [spki |-> keyPair]

\* exportKey("pkcs8", keyPair.privateKey), base64
ExportPrivateKey(keyPair) == [pkcs8 |-> keyPair]

\* StorageService.deriveEncryptionKey(password, salt): PBKDF2, 100000
\* iterations of SHA-256, to an AES-GCM key; a function of its two inputs.
deriveEncryptionKey(password, salt) == [password |-> password, salt |-> salt]

\* StorageService.encryptData(data, key) with the IV getRandomValues drew.
encryptData(data, key, iv) ==
    [encrypted |-> [key |-> key, iv |-> iv, data |-> data], iv |-> iv]

\* StorageService.decryptData(encryptedData, iv, key): AES-GCM decrypts under
\* the key and the IV of the encryption, and throws under any other.
decryptData(encryptedData, iv, key) ==
    IF encryptedData.key = key /\ encryptedData.iv = iv
    THEN encryptedData.data
    ELSE [pkcs8 |-> "OperationError"]

\* The row createUser inserts into users: of encryptData's result it takes
\* `encrypted` only.
UserRow(email, name, role, keyPair, wrapped) ==
    [id |-> AuthUserId(email),
     email |-> email,
     name |-> name,
     role |-> role,
     public_key |-> exportPublicKey(keyPair),
     encrypted_private_key |-> wrapped.encrypted]

\* users.id PRIMARY KEY, users.email UNIQUE
UsersInsertConflicts(rows, row) ==
    \E i \in 1..Len(rows) : rows[i].id = row.id \/ rows[i].email = row.email

\* StorageService.createUser(email, password, name, role).  keyPair and iv
\* are the random draws of generateKeyPair and encryptData.  insertOk is
\* whether the database lets the insert through: the script enables row-level
\* security on users and defines no INSERT policy, so insertOk = TRUE is a
\* deployment that adds one.  Every failure is caught and null returned; an
\* account supabase.auth.signUp has created stays in Supabase Auth.
CreateUser(email, password, name, role, signUp, keyPair, iv, insertOk) ==
    LET signedUp == signUp = "user"
        encryptionKey == deriveEncryptionKey(password, email)
        wrapped == encryptData(ExportPrivateKey(keyPair), encryptionKey, iv)
        row == UserRow(email, name, role, keyPair, wrapped)
        created == signedUp /\ insertOk /\ ~UsersInsertConflicts(users, row)
    IN  /\ auth_users' = IF signedUp THEN auth_users \cup {email} ELSE auth_users
        /\ users' = IF created THEN Append(users, row) ELSE users
        /\ result' = [op |-> "createUser",
                      email |-> email,
                      password |-> password,
                      keyPair |-> keyPair,
                      derived |-> signedUp,
                      created |-> created,
                      row |-> IF created THEN Len(users) + 1 ELSE 0]
        /\ UNCHANGED <<share_requests, now, calls, auditVars, recordVars,
                       patient_records, uploadVars>>

\* createProfile / createProfileAlternative: the row of the new account in
\* 'profiles'; the columns the upsert does not name keep their values.
UpsertProfile(id) ==
    [profiles EXCEPT ![id] = [@ EXCEPT !.exists = TRUE]]

\* AuthForm.handleAuth with the form in sign-up mode.  profileOk and altOk
\* are whether createProfile and createProfileAlternative succeed.  No key is
\* generated or derived on this path.
HandleAuthSignUp(email, password, name, role, signUp, profileOk, altOk) ==
    LET incomplete == email = "" \/ password = "" \/ name = ""
        short == ~incomplete /\ Len(password) < MinPasswordLength
        signedUp == ~incomplete /\ ~short /\ signUp = "user"
    IN  /\ auth_users' = IF signedUp THEN auth_users \cup {email} ELSE auth_users
        /\ profiles' = IF signedUp /\ (profileOk \/ altOk)
                       THEN UpsertProfile(AuthUserId(email)) ELSE profiles
        /\ result' =
               [op |-> "handleAuth",
                password |-> password,
                derived |-> FALSE,
                created |-> signedUp,
                message |->
                    IF incomplete THEN "Please fill in all required fields"
                    ELSE IF short THEN "Password must be at least 6 characters long"
                    ELSE IF signUp = "error" THEN "authError.message"
                    ELSE IF signUp = "none" THEN "User creation failed"
                    ELSE IF profileOk \/ altOk THEN ""
                    ELSE "Account was created but profile setup failed. You can update your profile later."]
        /\ UNCHANGED <<share_requests, now, calls, auditVars, medical_records,
                       records, users, patient_records, uploadVars>>

NextUser ==
    \/ \E email \in Emails, password \in Passwords, role \in Roles,
          signUp \in SignUpOutcomes, keyPair \in KeyPairs, iv \in IVs,
          insertOk \in BOOLEAN :
           CreateUser(email, password, "name", role, signUp, keyPair, iv, insertOk)
    \/ \E email \in Emails \cup {""}, password \in Passwords, role \in Roles,
          signUp \in SignUpOutcomes, profileOk, altOk \in BOOLEAN :
           HandleAuthSignUp(email, password, "name", role, signUp, profileOk, altOk)

SpecUser == Init /\ [][NextUser]_vars

(***************************************************************************)
(* EncryptionService: encryptFile and decryptFile                          *)
(*                                                                         *)
(* AES-GCM is a counter-mode stream cipher with an authentication tag: the *)
(* body of a ciphertext is the payload combined byte by byte with a        *)
(* keystream that the key and the IV determine, and the tag binds the body *)
(* to the key and the IV.  Bytes are one bit wide here.                    *)
(***************************************************************************)

MaxPayloadLen == 2

Bytes == 0..1

\* The contents of a File: every byte sequence up to the bound, the empty
\* one included.
Payloads == UNION { [1..n -> Bytes] : n \in 0..MaxPayloadLen }

\* generateAESKey(): the AES-GCM keys it can return.
AESKeys == 0..2

\* crypto.getRandomValues(new Uint8Array(12)): the IVs it can draw.
FileIVs == 0..1

Xor(a, b) == (a + b) % 2

\* Byte i of the keystream of a key and an IV.
Keystream(key, iv, i) == (key + 2 * iv + i) % 2

\* The authentication tag of a body under a key and an IV.
Tag(key, iv, body) == [key |-> key, iv |-> iv, body |-> body]

\* What crypto.subtle.encrypt({name: "AES-GCM", iv}, key, data) returns.
AesGcmEncrypt(data, key, iv) ==
    LET body == [i \in 1..Len(data) |-> Xor(data[i], Keystream(key, iv, i))]
    IN  [body |-> body, tag |-> Tag(key, iv, body)]

\* EncryptionService.encryptFile(file, key) with the IV it drew.
encryptFile(file, key, iv) ==
    [encryptedData |-> AesGcmEncrypt(file, key, iv), iv |-> iv]

\* decryptFile with the keystream left out: the body is returned as it is.
decryptFileWithoutKeystream(encryptedData, key, iv) ==
    IF encryptedData.tag = Tag(key, iv, encryptedData.body)
    THEN [ok |-> TRUE, data |-> encryptedData.body]
    ELSE [ok |-> FALSE, data |-> <<>>]

\* EncryptionService.decryptFile(encryptedData, key, iv): crypto.subtle.decrypt
\* rejects (ok = FALSE) when the tag does not verify under the key and the
\* IV, and returns the payload otherwise.
decryptFile(encryptedData, key, iv) ==
    IF encryptedData.tag = Tag(key, iv, encryptedData.body)
    THEN [ok |-> TRUE,
          data |-> [i \in 1..Len(encryptedData.body) |->
                        Xor(encryptedData.body[i], Keystream(key, iv, i))]]
    ELSE [ok |-> FALSE, data |-> <<>>]

\* EncryptionService.encryptKey(aesKey, publicKey): the raw AES key under
\* RSA-OAEP; a public key is named by the user it belongs to.
encryptKey(aesKey, publicKey) == [wrapped |-> aesKey, under |-> publicKey]

\* EncryptionService.decryptKey(encryptedKey, privateKey): the AES key when
\* the private key is the one of the public key it was wrapped under;
\* crypto.subtle.decrypt rejects (ok = FALSE) otherwise.
decryptKey(encryptedKey, privateKey) ==
    IF encryptedKey.under = privateKey
    THEN [ok |-> TRUE, key |-> encryptedKey.wrapped]
    ELSE [ok |-> FALSE, key |-> -1]

\* A call of encryptFile; file and key are kept beside what it returned.
EncryptFile(file, key, iv) ==
    /\ result' = [op |-> "encryptFile",
                  file |-> file,
                  key |-> key,
                  encrypted |-> encryptFile(file, key, iv),
                  withKey |-> key,
                  withIv |-> iv,
                  output |-> [ok |-> FALSE, data |-> <<>>]]
    /\ UNCHANGED <<share_requests, now, calls, auditVars, recordVars, users,
                   accountVars, uploadVars>>

\* A call of decryptFile on the ciphertext the last encryptFile returned,
\* under any key and any IV.
DecryptFile(key, iv) ==
    /\ result.op \in {"encryptFile", "decryptFile"}
    /\ result' = [result EXCEPT
                      !.op = "decryptFile",
                      !.withKey = key,
                      !.withIv = iv,
                      !.output = decryptFile(result.encrypted.encryptedData, key, iv)]
    /\ UNCHANGED <<share_requests, now, calls, auditVars, recordVars, users,
                   accountVars, uploadVars>>

NextCipher ==
    \/ \E file \in Payloads, key \in AESKeys, iv \in FileIVs : EncryptFile(file, key, iv)
    \/ \E key \in AESKeys, iv \in FileIVs : DecryptFile(key, iv)

SpecCipher == Init /\ [][NextCipher]_vars

(***************************************************************************)
(* Concurrent status updates of one grant                                  *)
(*                                                                         *)
(* A session reads a row of share_requests and later sends the UPDATE of   *)
(* its status; other sessions' statements may run in between.  The table   *)
(* has no version column, and the UPDATE policies test auth.uid() only.    *)
(***************************************************************************)

\* Caller c, in session uid, selects row id and keeps the status it saw.
ReadShareRequest(c, uid, id) ==
    /\ calls[c].pc = "idle"
    /\ CanViewShareRequest(uid, share_requests[id])
    /\ calls' = [calls EXCEPT ![c] =
                     [pc |-> "read", uid |-> uid,
                      req |-> [NoRequest EXCEPT !.status = share_requests[id].status],
                      row |-> id, overlap |-> {}]]
    /\ result' = NoResult
    /\ UNCHANGED <<share_requests, now, auditVars, recordVars, users,
                   accountVars, uploadVars>>

\* Caller c sends UPDATE share_requests SET status = st WHERE id = <the row
\* it read>.  `read` is the status the caller saw, `prev` the status the row
\* had when the statement ran.
WriteShareRequestStatus(c, st) ==
    LET id == calls[c].row
        uid == calls[c].uid
        row == share_requests[id]
        permitted == \/ PatientsCanUpdateShareRequests(uid, row)
                     \/ DoctorsCanUpdateShareRequestStatus(uid, row)
    IN  /\ calls[c].pc = "read"
        /\ share_requests' =
               IF permitted
               THEN [share_requests EXCEPT ![id] = UpdateStatus(row, st)]
               ELSE share_requests
        /\ calls' = [calls EXCEPT ![c] = Idle]
        /\ result' = [op |-> "updateStatus", updated |-> permitted, id |-> id,
                      read |-> calls[c].req.status, prev |-> row.status,
                      status |-> st]
        /\ UNCHANGED <<now, auditVars, recordVars, users, accountVars, uploadVars>>

NextStatus ==
    \/ \E u \in Patients, req \in ShareRequestInputs : SaveShareRequest(u, req, TRUE)
    \/ \E c \in Callers, u \in Users, id \in Ids : ReadShareRequest(c, u, id)
    \/ \E c \in Callers, st \in Statuses : WriteShareRequestStatus(c, st)

SpecStatus == Init /\ [][NextStatus]_vars

(***************************************************************************)
(* StorageService.savePatientRecord and table patient_records              *)
(***************************************************************************)

\* What a caller may pass as a record (Omit<PatientRecord, "id" |
\* "uploadedAt">); "null" is a value the caller left undefined.
PatientRecordInputs ==
    [patientId : Patients, fileName : {"xray.png"}, fileType : {"image/png"},
     encryptedData : {"ciphertext", "null"}, iv : {"iv1", "null"},
     encryptedKey : {"wrapped key", "null"}]

\* The row savePatientRecord inserts, with the id the table generates.
PatientRecordRow(record, id) ==
    [id |-> id,
     patient_id |-> record.patientId,
     file_name |-> record.fileName,
     file_type |-> record.fileType,
     encrypted_data |-> record.encryptedData,
     iv |-> record.iv,
     encrypted_key |-> record.encryptedKey]

\* encrypted_data TEXT NOT NULL, iv TEXT NOT NULL, encrypted_key TEXT NOT NULL
PatientRecordNotNull(row) ==
    row.encrypted_data # "null" /\ row.iv # "null" /\ row.encrypted_key # "null"

\* POLICY "Patients can insert their own records": WITH CHECK (auth.uid() = patient_id)
PatientsCanInsertTheirOwnRecords(uid, row) == uid = row.patient_id

\* StorageService.savePatientRecord(record) in session uid: one INSERT of
\* the whole row.  ok = FALSE is the backend returning an error; a refused
\* or failed insert is caught and null returned.
SavePatientRecord(uid, record, ok) ==
    LET row == PatientRecordRow(record, Len(patient_records) + 1)
        saved == /\ ok
                 /\ PatientsCanInsertTheirOwnRecords(uid, row)
                 /\ PatientRecordNotNull(row)
    IN  /\ saved => Len(patient_records) < MaxRecords
        /\ patient_records' = IF saved THEN Append(patient_records, row)
                              ELSE patient_records
        /\ result' = [op |-> "savePatientRecord",
                      saved |-> saved,
                      row |-> IF saved THEN row.id ELSE 0]
        /\ UNCHANGED <<share_requests, now, calls, auditVars, recordVars, users,
                       auth_users, uploadVars>>

NextStore ==
    \/ \E email \in Emails, password \in Passwords, role \in Roles,
          signUp \in SignUpOutcomes, keyPair \in KeyPairs, iv \in IVs,
          insertOk \in BOOLEAN :
           CreateUser(email, password, "name", role, signUp, keyPair, iv, insertOk)
    \/ \E uid \in Users, record \in PatientRecordInputs, ok \in BOOLEAN :
           SavePatientRecord(uid, record, ok)

SpecStore == Init /\ [][NextStore]_vars

(***************************************************************************)
(* PatientDashboard.handleShare, one step per await                        *)
(*                                                                         *)
(* Each click starts a call; a call runs up to its next await, and other   *)
(* calls' steps run in between.  Calls in flight at the same time are for  *)
(* different records.                                                      *)
(***************************************************************************)

\* The handleShare calls in flight for record id.
SharesInFlight(id) ==
    { c \in Callers : calls[c].pc \in {"profile", "update"} /\ calls[c].record = id }

\* A call that has sent the update of its record and awaits it.
ShareCall(pc, id, doctorId, recordIds, patients) ==
    [pc |-> pc, record |-> id, doctorId |-> doctorId,
     currentRecordIds |-> recordIds, currentPatients |-> patients]

\* handleShare(record, doctorId) up to the answer of the update of
\* 'medical-records': shared_with becomes the list the click saw plus the
\* doctor's name.  On an error the call returns.
ShareUpdateRecord(c, k, doctorId, recordOk) ==
    LET record == records[k]
        sharedWith == Append(record.shared_with, DoctorName(doctorId))
    IN  /\ calls[c].pc = "idle"
        /\ DoctorName(doctorId) \notin Range(record.shared_with)
        /\ SharesInFlight(record.id) = {}
        /\ medical_records' =
               IF recordOk
               THEN [i \in 1..Len(medical_records) |->
                        IF medical_records[i].id = record.id
                        THEN [medical_records[i] EXCEPT !.shared_with = sharedWith]
                        ELSE medical_records[i]]
               ELSE medical_records
        /\ calls' = [calls EXCEPT ![c] =
                        IF recordOk
                        THEN ShareCall("profile", record.id, doctorId, <<>>, <<>>)
                        ELSE Idle]
        /\ result' = IF recordOk THEN NoResult
                     ELSE [op |-> "PatientDashboard.handleShare", shared |-> FALSE,
                           record |-> record.id, doctorId |-> doctorId]
        /\ UNCHANGED <<share_requests, now, auditVars, profiles, records, users,
                       accountVars, uploadVars>>

\* The select of record_ids and patients from the doctor's profile; .single()
\* answers with an error when there is no row.  On an error the call returns.
ShareReadProfile(c, profileOk) ==
    LET doctorProfile == profiles[calls[c].doctorId]
        read == profileOk /\ doctorProfile.exists
    IN  /\ calls[c].pc = "profile"
        /\ calls' = [calls EXCEPT ![c] =
                        IF read
                        THEN ShareCall("update", calls[c].record, calls[c].doctorId,
                                       doctorProfile.record_ids, doctorProfile.patients)
                        ELSE Idle]
        /\ result' = IF read THEN NoResult
                     ELSE [op |-> "PatientDashboard.handleShare", shared |-> FALSE,
                           record |-> calls[c].record, doctorId |-> calls[c].doctorId]
        /\ UNCHANGED <<share_requests, now, auditVars, recordVars, users,
                       accountVars, uploadVars>>

\* The update of the profile with the lists read earlier and the call's own
\* record and patient added, and after it the update of the local list.
ShareUpdateProfile(c, user, updateOk) ==
    LET id == calls[c].record
        doctorId == calls[c].doctorId
    IN  /\ calls[c].pc = "update"
        /\ profiles' =
               IF updateOk
               THEN [profiles EXCEPT ![doctorId] =
                        [exists |-> TRUE,
                         record_ids |-> Append(calls[c].currentRecordIds, id),
                         patients |-> AddUnique(calls[c].currentPatients, user)]]
               ELSE profiles
        /\ records' =
               IF updateOk
               THEN [i \in 1..Len(records) |->
                        IF records[i].id = id
                        THEN [records[i] EXCEPT
                                 !.shared_with = Append(@, DoctorName(doctorId))]
                        ELSE records[i]]
               ELSE records
        /\ calls' = [calls EXCEPT ![c] = Idle]
        /\ result' = [op |-> "PatientDashboard.handleShare", shared |-> updateOk,
                      record |-> id, doctorId |-> doctorId]
        /\ UNCHANGED <<share_requests, now, auditVars, medical_records, users,
                       accountVars, uploadVars>>

NextConcurrentShare ==
    \/ \E f \in UploadFiles, firstOk \in BOOLEAN : HandleFileUpload("p1", f, firstOk, TRUE)
    \/ \E c \in Callers, k \in 1..Len(records), d \in Doctors, recordOk \in BOOLEAN :
           ShareUpdateRecord(c, k, d, recordOk)
    \/ \E c \in Callers, profileOk \in BOOLEAN : ShareReadProfile(c, profileOk)
    \/ \E c \in Callers, updateOk \in BOOLEAN : ShareUpdateProfile(c, "p1", updateOk)

SpecConcurrentShare == Init /\ [][NextConcurrentShare]_vars

(***************************************************************************)
(* PatientDashboard.handleFileUpload, one step per await                   *)
(*                                                                         *)
(* The file input is disabled while `uploading` is true; the drop zone is  *)
(* not, so a drop starts a call whatever the flag says.                    *)
(***************************************************************************)

\* A handleFileUpload call that awaits the answer of an insert.
UploadCall(pc, file, inserts) == [pc |-> pc, file |-> file, inserts |-> inserts]

\* The calls that have passed the checks and not reached their finally block.
UploadsInFlight == { c \in Callers : calls[c].pc \in {"insert", "retry"} }

\* What a handleFileUpload call leaves to its caller's view when it ends.
UploadResult(uploaded, row, inserts, error) ==
    [op |-> "handleFileUpload", uploaded |-> uploaded, row |-> row,
     inserts |-> inserts, uploadError |-> error]

\* handleFileUpload(files) up to its first await: the checks, the two
\* setters and the sending of the first insert.
StartUpload(c, file) ==
    LET valid == file # NoFile /\ IsImageType(file.type) /\ file.size <= MaxUploadBytes
        error == IF ~IsImageType(file.type)
                 THEN "Please upload an image file (JPG, PNG, etc.)"
                 ELSE "File size must be less than 10MB"
    IN  /\ calls[c].pc = "idle"
        /\ valid => Len(medical_records) + Cardinality(UploadsInFlight) < MaxRecords
        /\ calls' = [calls EXCEPT ![c] =
                        IF valid THEN UploadCall("insert", file, 1) ELSE Idle]
        /\ uploading' = IF valid THEN TRUE ELSE uploading
        /\ uploadError' = IF file = NoFile THEN uploadError
                          ELSE IF valid THEN "null" ELSE error
        /\ result' = IF valid THEN NoResult
                     ELSE UploadResult(FALSE, 0, 0,
                                       IF file = NoFile THEN "null" ELSE error)
        /\ UNCHANGED <<share_requests, now, auditVars, recordVars, users, accountVars>>

\* handleInputChange: the file input, disabled={uploading}.
HandleInputChange(c, file) == ~uploading /\ StartUpload(c, file)

\* handleDrop: the drop zone.
HandleDrop(c, file) == StartUpload(c, file)

\* The finally block after a retry that leaves `uploading` as it is.
FinishRetryKeepingUploading(c, user, retryOk) ==
    LET file == calls[c].file
        row == MedicalRecordRow(Len(medical_records) + 1, user, file, "medical_image", now)
    IN  /\ calls[c].pc = "retry"
        /\ medical_records' = IF retryOk THEN Append(medical_records, row)
                              ELSE medical_records
        /\ records' = IF retryOk THEN <<row>> \o records ELSE records
        /\ uploadError' = IF retryOk THEN uploadError ELSE "Database error"
        /\ uploading' = uploading
        /\ calls' = [calls EXCEPT ![c] = Idle]
        /\ result' = UploadResult(retryOk, IF retryOk THEN row.id ELSE 0, 2,
                                  IF retryOk THEN "null" ELSE "Database error")
        /\ UNCHANGED <<share_requests, now, auditVars, profiles, users, accountVars>>

\* The answer of the first insert.  With a row: the row is prepended to the
\* list and the finally block runs.  With an error: the second insert, with
\* record_type 'medical_image', is sent.
FirstInsertAnswered(c, user, firstOk) ==
    LET file == calls[c].file
        row == MedicalRecordRow(Len(medical_records) + 1, user, file,
                                RecordTypeOf(file.name), now)
    IN  /\ calls[c].pc = "insert"
        /\ medical_records' = IF firstOk THEN Append(medical_records, row)
                              ELSE medical_records
        /\ records' = IF firstOk THEN <<row>> \o records ELSE records
        /\ uploading' = IF firstOk THEN FALSE ELSE uploading
        /\ calls' = [calls EXCEPT ![c] =
                        IF firstOk THEN Idle ELSE UploadCall("retry", file, 2)]
        /\ result' = IF firstOk THEN UploadResult(TRUE, row.id, 1, "null")
                     ELSE NoResult
        /\ UNCHANGED <<share_requests, now, auditVars, profiles, users,
                       accountVars, uploadError>>

\* The answer of the second insert.  With a row: the row is prepended to
\* the list.  With an error: the throw is caught and uploadError set.  The
\* finally block runs after either.
RetryInsertAnswered(c, user, retryOk) ==
    LET file == calls[c].file
        row == MedicalRecordRow(Len(medical_records) + 1, user, file, "medical_image", now)
    IN  /\ calls[c].pc = "retry"
        /\ medical_records' = IF retryOk THEN Append(medical_records, row)
                              ELSE medical_records
        /\ records' = IF retryOk THEN <<row>> \o records ELSE records
        /\ uploadError' = IF retryOk THEN uploadError ELSE "Database error"
        /\ uploading' = FALSE
        /\ calls' = [calls EXCEPT ![c] = Idle]
        /\ result' = UploadResult(retryOk, IF retryOk THEN row.id ELSE 0, 2,
                                  IF retryOk THEN "null" ELSE "Database error")
        /\ UNCHANGED <<share_requests, now, auditVars, profiles, users, accountVars>>

NextUpload ==
    \/ \E c \in Callers, f \in UploadFiles \cup {NoFile} : HandleInputChange(c, f)
    \/ \E c \in Callers, f \in UploadFiles \cup {NoFile} : HandleDrop(c, f)
    \/ \E c \in Callers, firstOk \in BOOLEAN : FirstInsertAnswered(c, "p1", firstOk)
    \/ \E c \in Callers, retryOk \in BOOLEAN : RetryInsertAnswered(c, "p1", retryOk)

SpecUpload == Init /\ [][NextUpload]_vars

\* Every insert the Supabase client has sent is answered, with a row or with
\* an error.
SpecUploadFair ==
    /\ Init
    /\ [][NextUpload]_vars
    /\ \A c \in Callers :
           /\ WF_vars(\E firstOk \in BOOLEAN : FirstInsertAnswered(c, "p1", firstOk))
           /\ WF_vars(\E retryOk \in BOOLEAN : RetryInsertAnswered(c, "p1", retryOk))

(***************************************************************************)
(* Properties                                                              *)
(***************************************************************************)

\* view <= download: the operation a grant's access level covers.
OpWithin(op, level) == op = "view" \/ level = "download"

\* An active grant: approved and not expired.
Active(row) == row.status = "approved" /\ now < row.expires_at

SamePair(r1, r2) == r1.record_id = r2.record_id /\ r1.doctor_id = r2.doctor_id

\* The last operation was a successful getSharedRecords that handed the
\* record of share row i to the doctor.
Handed(i) ==
    /\ result.op = "getSharedRecords"
    /\ result.ok
    /\ \E r \in result.records : r.share = i

Loaded == result.op = "getSharedRecords" /\ result.ok

\* C1: a share row's record is handed to its grantee for the requested
\* operation exactly when the row is approved, the time is before its expiry
\* and the operation is within its access level.
C1_AllowedIffApprovedUnexpiredWithinLevel ==
    Loaded =>
        \A i \in Ids :
            LET row == share_requests[i]
            IN  row.doctor_id = result.doctorId =>
                    (Handed(i) <=>
                        (Active(row) /\ OpWithin(result.requestedOp, row.access_level)))

DenialReasons == {"NotApproved", "Expired", "AccessLevelInsufficient"}

\* C2: every denial carries exactly one reason out of NotApproved, Expired and
\* AccessLevelInsufficient, the reason is true of the inputs, and an approved
\* grant of sufficient level evaluated at its expiry is denied as Expired.
C2_DeniedCarriesOneTrueReason ==
    Loaded =>
        \A i \in Ids :
            LET row == share_requests[i]
                d == AccessDecision(row, result.doctorId, share_requests, now)
            IN  (row.doctor_id = result.doctorId /\ d.decision = "Denied") =>
                    /\ "reason" \in DOMAIN d
                    /\ d.reason \in DenialReasons
                    /\ d.reason = "NotApproved" => row.status # "approved"
                    /\ d.reason = "Expired" => now >= row.expires_at
                    /\ d.reason = "AccessLevelInsufficient" =>
                           (result.requestedOp = "download" /\ row.access_level = "view")
                    /\ (row.status = "approved" /\ now = row.expires_at
                        /\ OpWithin(result.requestedOp, row.access_level)) =>
                           d.reason = "Expired"

\* Share row i is its grantee's only grant on its record.
OnlyGrant(i) ==
    \A j \in Ids \ {i} : ~SamePair(share_requests[i], share_requests[j])

\* C3: before expiry, a grantee whose only grant on a record has access level
\* view is handed the record for a view request and never for a download
\* request; with access level download it is handed the record for both.
C3_ViewGrantAllowsViewDeniesDownload ==
    Loaded =>
        \A i \in Ids :
            LET row == share_requests[i]
            IN  (row.doctor_id = result.doctorId /\ Active(row) /\ OnlyGrant(i)) =>
                    /\ row.access_level = "view" =>
                           (Handed(i) <=> result.requestedOp = "view")
                    /\ row.access_level = "download" => Handed(i)

\* C4: there is at most one active grant for each (record, grantee) pair.
C4_AtMostOneActiveGrantPerPair ==
    \A i, j \in Ids :
        (i # j /\ SamePair(share_requests[i], share_requests[j])) =>
            ~(Active(share_requests[i]) /\ Active(share_requests[j]))

\* C5: two share calls for the same (record, grantee) pair that were in
\* flight together never both leave an active grant for that pair.
C5_ConcurrentSharesLeaveOneActiveGrant ==
    \A c, d \in Callers :
        (/\ c # d
         /\ calls[c].pc = "returned" /\ calls[d].pc = "returned"
         /\ d \in calls[c].overlap /\ c \in calls[d].overlap
         /\ calls[c].row # 0 /\ calls[d].row # 0) =>
            LET rc == share_requests[calls[c].row]
                rd == share_requests[calls[d].row]
            IN  SamePair(rc, rd) => ~(Active(rc) /\ Active(rd))

\* C6: a share request whose expiry is not strictly after the time of the
\* request persists nothing: the row a save has just written expires strictly
\* after the time it was created.
C6_PersistedGrantExpiresAfterCreation ==
    (result.op = "saveShareRequest" /\ result.row # 0) =>
        share_requests[result.row].expires_at > now

\* C7: a grant's status changes only from pending (approve, deny), except
\* for revoke, which takes approved to denied.
C7_StatusChangesOnlyFromPending ==
    [][\A i \in Ids :
          share_requests'[i].status # share_requests[i].status =>
              \/ share_requests[i].status = "pending"
              \/ /\ share_requests[i].status = "approved"
                 /\ share_requests'[i].status = "denied"]_vars

\* C8: a grant that is denied, or approved and expired, is denied to every
\* grantee for every operation after any further step.
C8_DeniedAndExpiredAreTerminal ==
    [][\A i \in Ids :
          LET row == share_requests[i]
          IN  (row.status = "denied"
               \/ (row.status = "approved" /\ now >= row.expires_at)) =>
                  \A d \in Doctors :
                      AccessDecision(share_requests'[i], d, share_requests', now').decision
                          = "Denied"]_vars

C10_ApprovedOnlyByAutoApproveOrFromPending ==
    [][\A i \in 1..Len(share_requests') :
          IF i \in Ids
          THEN (share_requests'[i].status = "approved"
                /\ share_requests[i].status # "approved") =>
                   share_requests[i].status = "pending"
          ELSE LET mode == IF result'.op = "handleShare" THEN "approved"
                           ELSE result'.requested
               IN  /\ share_requests'[i].status = "approved" <=> mode = "approved"
                   /\ mode = "pending" => share_requests'[i].status = "pending"]_vars

\* C11: logEvent never lets a failure reach its caller: every call completes
\* normally, also when the audit table refuses the event and the write to the
\* local fallback log fails as well.
C11_LogEventNeverPropagatesFailure ==
    result.op = "logEvent" => result.outcome = "returned"

\* C12: the audit trail is append-only: after every step, every entry that was
\* in the audit table or in the local fallback log is still there, unmodified.
C12_AuditTrailIsAppendOnly ==
    [][/\ \A i \in 1..Len(audit_logs) :
              i <= Len(audit_logs') /\ audit_logs'[i] = audit_logs[i]
       /\ \A i \in 1..Len(local_logs) :
              \E j \in 1..Len(local_logs') : local_logs'[j] = local_logs[i]]_vars

\* C13: every persisted audit entry, in the audit table and in the local
\* fallback log, holds its details in encrypted form only.
C13_PersistedDetailsAreEncrypted ==
    /\ \A i \in 1..Len(audit_logs) : audit_logs[i].encrypted_details.form = "ciphertext"
    /\ \A i \in 1..Len(local_logs) : local_logs[i].details.form = "ciphertext"

\* An entry of the local fallback log has reached the audit table: the table
\* holds a row for the same actor, action and resource written no earlier.
InAuditTable(entry) ==
    \E j \in 1..Len(audit_logs) :
        /\ audit_logs[j].user_id = entry.userId
        /\ audit_logs[j].action = entry.action
        /\ audit_logs[j].resource_id = entry.resourceId
        /\ audit_logs[j].created_at >= entry.timestamp

\* Some entry diverted to the local fallback log has not reached the table.
FallbackPending == \E i \in 1..Len(local_logs) : ~InAuditTable(local_logs[i])

\* C14: an entry diverted to the local fallback log while the audit table
\* accepts writes again is eventually written to the audit table.
C14_DivertedEntryEventuallyStored ==
    (FallbackPending /\ audit_up) ~> ~FallbackPending

\* The entries the query of the last getAuditLogs could read: the rows of the
\* audit table its session may see, or the entries of the local log.
ReadableEntries ==
    IF result.path = "remote"
    THEN { MapRow(audit_logs[i]) :
             i \in { j \in 1..Len(audit_logs) :
                       UsersCanViewTheirOwnAuditLogs(result.uid, audit_logs[j]) } }
    ELSE { local_logs[i] : i \in 1..Len(local_logs) }

\* entry passes every filter that was provided.
MatchesFilters(entry, filters) ==
    /\ filters.userId # "none" => entry.userId = filters.userId
    /\ filters.resourceId # "none" => entry.resourceId = filters.resourceId
    /\ filters.action # "none" => entry.action = filters.action

\* C15: getAuditLogs returns exactly the stored entries that match every
\* provided filter, newest first, cut to the first `limit` of them for every
\* limit given, on the remote path and on the local fallback path.
C15_QueryReturnsMatchingNewestFirstLimited ==
    (result.op = "getAuditLogs" /\ result.outcome = "returned") =>
        LET logs == result.logs
            limit == result.filters.limit
            expected == { e \in ReadableEntries : MatchesFilters(e, result.filters) }
            n == Cardinality(expected)
            returned == { logs[i] : i \in 1..Len(logs) }
        IN  /\ Len(logs) = IF limit # -1 /\ limit < n THEN limit ELSE n
            /\ returned \subseteq expected
            /\ Cardinality(returned) = Len(logs)
            /\ \A i, j \in 1..Len(logs) :
                   i < j => logs[i].timestamp >= logs[j].timestamp
            /\ \A e \in expected \ returned :
                   \A i \in 1..Len(logs) : logs[i].timestamp >= e.timestamp

\* The field of the summary that holds the count of an action kind.
SummaryField(kind) ==
    CASE kind = "upload" -> "recentUploads"
      [] kind = "share" -> "recentShares"
      [] kind = "access" -> "recentAccess"
      [] kind = "download" -> "recentDownloads"
      [] kind = "login" -> "recentLogins"
      [] kind = "logout" -> "recentLogouts"

\* C16: the activity summary of an actor holds, for each of the six action
\* kinds, the number of the actor's entries of that kind within the trailing
\* window, and as total the number of all the actor's entries; no count
\* exceeds the total.
C16_SummaryCountsEachKindInWindow ==
    (result.op = "getActivitySummary" /\ result.outcome = "returned") =>
        LET own == { e \in ReadableEntries : e.userId = result.userId }
            summary == result.summary
        IN  /\ summary.totalActions = Cardinality(own)
            /\ \A kind \in AuditActions :
                   /\ SummaryField(kind) \in DOMAIN summary
                   /\ summary[SummaryField(kind)] =
                          Cardinality({ e \in own : /\ e.action = kind
                                                    /\ e.timestamp > now - SummaryWindow })
                   /\ summary[SummaryField(kind)] <= summary.totalActions

\* The number of entries of the audit trail, table and local log together.
AuditEntryCount == Len(audit_logs) + Len(local_logs)

\* C17: a step in which an upload or a share completes successfully appends
\* exactly one entry to the audit trail, so that no successful upload or
\* share is without an audit entry when its handler returns.
C17_SuccessfulOperationAppendsOneAuditEntry ==
    [][(\/ result'.op = "handleFileUpload" /\ result'.uploaded
        \/ result'.op = "PatientDashboard.handleShare" /\ result'.shared) =>
           AuditEntryCount' = AuditEntryCount + 1]_vars

\* C18: every row an upload has persisted holds the ciphertext of the
\* payload, the IV of that encryption and the wrapped content key, and no
\* reference to the plaintext payload.
C18_UploadPersistsCiphertextOnly ==
    \A i \in 1..Len(medical_records) :
        LET row == medical_records[i]
        IN  /\ {"encrypted_data", "iv", "encrypted_key"} \subseteq DOMAIN row
            /\ "file_url" \in DOMAIN row => row.file_url.scheme # "blob"

\* C19: the row stored for a user that createUser has just created holds the
\* ciphertext and the IV of the private-key wrap, and decrypting the
\* ciphertext with the stored IV under the key derived from the password and
\* the stored salt gives the private key that was generated.
C19_StoredWrapUnwrapsToPrivateKey ==
    (result.op = "createUser" /\ result.created) =>
        LET row == users[result.row]
            key == deriveEncryptionKey(result.password, row.email)
        IN  /\ {"encrypted_private_key", "iv"} \subseteq DOMAIN row
            /\ decryptData(row.encrypted_private_key, row.iv, key)
                   = ExportPrivateKey(result.keyPair)

\* C20: a call that creates a user with a password shorter than the minimum
\* length is rejected and derives no key from that password.
C20_ShortPasswordRejectedBeforeDerivation ==
    (result.op \in {"createUser", "handleAuth"}
     /\ Len(result.password) < MinPasswordLength) =>
        ~result.created /\ ~result.derived
\* C21: for every symmetric key and every payload, the empty one included,
\* decryptFile applied to the ciphertext and the IV encryptFile returned,
\* under the same key, returns the payload.
C21_DecryptFileInvertsEncryptFile ==
    (/\ result.op = "decryptFile"
     /\ result.withKey = result.key
     /\ result.withIv = result.encrypted.iv)
    => result.output = [ok |-> TRUE, data |-> result.file]

\* The empty payload has made the round trip.
C21_Witness ==
    /\ result.op = "decryptFile"
    /\ result.withKey = result.key
    /\ result.withIv = result.encrypted.iv
    /\ result.file = <<>>
    /\ result.output.ok

\* C22: two uploads of the same file have left two records that each hold an
\* IV and a ciphertext, with distinct IVs and distinct ciphertexts.
C22_UploadsOfOneFileDifferInIvAndCiphertext ==
    \A i, j \in 1..Len(medical_records) :
        LET a == medical_records[i]
            b == medical_records[j]
        IN  (i # j /\ a.file_name = b.file_name) =>
                /\ {"encrypted_data", "iv"} \subseteq DOMAIN a
                /\ {"encrypted_data", "iv"} \subseteq DOMAIN b
                /\ a.iv # b.iv
                /\ a.encrypted_data # b.encrypted_data

\* C23: a status update that takes effect finds the grant in the status its
\* caller read: no update overwrites a transition another session made in
\* between.
C23_StatusUpdateAppliesToTheStatusRead ==
    (result.op = "updateStatus" /\ result.updated) => result.prev = result.read

\* C24: a savePatientRecord or createUser call that fails leaves every store
\* as it was (createUser: no account without its key row), and every row of
\* patient_records holds ciphertext, IV and wrapped key together.
C24_FailedStoreLeavesNothingBehind ==
    [][/\ (result'.op = "createUser" /\ ~result'.created) =>
              auth_users' = auth_users /\ users' = users
       /\ (result'.op = "savePatientRecord" /\ ~result'.saved) =>
              patient_records' = patient_records
       /\ \A i \in 1..Len(patient_records') :
              PatientRecordNotNull(patient_records'[i])]_vars

\* C25: every persisted grant carries the content key of its record wrapped
\* under the public key of its grantee, so that the grantee's private key
\* unwraps it.
C25_GrantCarriesKeyWrappedForGrantee ==
    \A i \in Ids :
        LET row == share_requests[i]
        IN  /\ "encrypted_key" \in DOMAIN row
            /\ \E k \in AESKeys :
                   /\ row.encrypted_key = encryptKey(k, row.doctor_id)
                   /\ decryptKey(row.encrypted_key, row.doctor_id) = [ok |-> TRUE, key |-> k]

\* C26: once every handleShare call has returned, the record_ids of a doctor
\* contains every record whose share with that doctor completed without an
\* error (the shares the local list shows).
C26_ConcurrentSharesAllReachRecordIds ==
    (\A c \in Callers : calls[c].pc = "idle") =>
        \A k \in 1..Len(records), d \in Doctors :
            DoctorName(d) \in Range(records[k].shared_with) =>
                records[k].id \in Range(profiles[d].record_ids)

\* The row of 'medical-records' with the given id.
StoredRecord(id) ==
    medical_records[CHOOSE i \in 1..Len(medical_records) : medical_records[i].id = id]

\* The entry of the dashboard's local list with the given id.
LocalRecord(id) ==
    records[CHOOSE i \in 1..Len(records) : records[i].id = id]

\* C27: when PatientDashboard.handleShare has returned, on any path, the
\* stored shared_with of the record contains the doctor's name exactly when
\* the doctor's record_ids contains the record's id, and the local list
\* shows the stored shared_with.
C27_ShareLeavesRecordProfileAndListAgreeing ==
    result.op = "PatientDashboard.handleShare" =>
        /\ DoctorName(result.doctorId) \in Range(StoredRecord(result.record).shared_with)
               <=> result.record \in Range(profiles[result.doctorId].record_ids)
        /\ LocalRecord(result.record).shared_with = StoredRecord(result.record).shared_with

\* C28: a logEvent call stores its event in exactly one place, the audit
\* table when the insert succeeds and the local fallback log otherwise; and
\* getAuditLogs returns rows of the audit table alone when the remote query
\* succeeds and entries of the local log alone otherwise.
C28_EventStoredInOnePlaceAndQueryReadsOnePlace ==
    [][/\ result'.op = "logEvent" =>
              LET inTable == Len(audit_logs') - Len(audit_logs)
                  inLocal == LastLocalId(local_logs') - LastLocalId(local_logs)
              IN  /\ inTable + inLocal = 1
                  /\ inTable = 1 <=> audit_up
       /\ (result'.op = "getAuditLogs" /\ result'.outcome = "returned") =>
              /\ result'.path = IF audit_up THEN "remote" ELSE "local"
              /\ \A i \in 1..Len(result'.logs) : result'.logs[i] \in ReadableEntries']_vars

\* C29: `uploading` is true exactly while some handleFileUpload call is
\* between passing the checks and its finally block.
C29_UploadingIffSomeUploadInFlight ==
    uploading <=> UploadsInFlight # {}

\* Call c ends in this step after having passed the checks.
UploadReturns(c) == calls[c].pc \in {"insert", "retry"} /\ calls'[c].pc = "idle"

\* C30: a handleFileUpload call makes at most two insert attempts, the second
\* only after the first was answered with an error and with record_type
\* 'medical_image'; when an attempt succeeded it puts exactly that one record
\* at the head of the local list; when both failed it adds no record and
\* sets uploadError; and every call that has passed the checks ends, with
\* `uploading` reset to false.
C30_UploadTriesTwicePrependsOnceResetsUploading ==
    /\ [][\A c \in Callers :
              /\ calls'[c].pc = "insert" => calls'[c].inserts = 1
              /\ (calls'[c].pc = "retry" /\ calls[c].pc # "retry") =>
                     /\ calls[c].pc = "insert"
                     /\ calls'[c].inserts = 2
                     /\ records' = records /\ medical_records' = medical_records
              /\ UploadReturns(c) =>
                     /\ result'.op = "handleFileUpload"
                     /\ result'.inserts = calls[c].inserts
                     /\ result'.inserts \in 1..2
                     /\ result'.uploaded =>
                            /\ records' = <<records'[1]>> \o records
                            /\ records'[1].id = result'.row
                            /\ records'[1] = medical_records'[Len(medical_records')]
                            /\ result'.inserts = 2 =>
                                   records'[1].record_type = "medical_image"
                     /\ ~result'.uploaded =>
                            /\ result'.inserts = 2
                            /\ records' = records
                            /\ medical_records' = medical_records
                            /\ uploadError' = "Database error"
                     /\ ~uploading']_vars
    /\ \A c \in Callers : (calls[c].pc \in {"insert", "retry"}) ~> (calls[c].pc = "idle")

\* A call whose first insert failed and whose retry succeeded has ended.
C30_RetrySucceeded ==
    /\ result.op = "handleFileUpload"
    /\ result.inserts = 2
    /\ result.uploaded
    /\ records[1].record_type = "medical_image"
    /\ ~uploading

====
